---------------------------- MODULE Spec2Model ----------------------------
(***************************************************************************)
(* A model of alsa2pipe.c: the silence detector silent() and the capture   *)
(* loop run(), which opens and closes the output pipe as the ALSA source   *)
(* becomes active or falls silent and runs the connect/disconnect hooks.   *)
(*                                                                         *)
(* Spec       : run(), one step per section of the loop body.              *)
(* SpecSilent : silent() alone, applied to every block of the bounded      *)
(*              geometries.                                                *)
(***************************************************************************)
EXTENDS Integers, Sequences, FiniteSets

(***************************************************************************)
(* Bounds of the model.                                                    *)
(***************************************************************************)
\* silent() is applied to blocks of up to MaxFrames frames ...
MaxFrames ==
    4
\* ... of up to MaxChannels channels
MaxChannels ==
    2
\* run() is given blocks of up to RunFrames frames ...
RunFrames ==
    2
\* ... of up to RunChannels channels
RunChannels ==
    1
\* largest silence threshold passed to run()
MaxSilenceMax ==
    3

(***************************************************************************)
(* Program constants.                                                      *)
(***************************************************************************)
\* errno of a removed device, returned negated by snd_pcm_readi
ENODEV ==
    19
\* the null pointer the hook globals start with
NULL ==
    "NULL"
\* the sample formats main() accepts
Formats ==
    {"S8", "U8", "S16_LE", "S16_BE", "S24_LE", "S24_BE", "S32_LE", "S32_BE"}
\* the formats run() is started with: one of each width
RunFormats ==
    {"U8", "S16_LE", "S24_LE", "S32_BE"}
\* snd_pcm_format_width of the accepted formats
snd_pcm_format_width(f) ==
    CASE f \in {"S8", "U8"} -> 8
      [] f \in {"S16_LE", "S16_BE"} -> 16
      [] f \in {"S24_LE", "S24_BE"} -> 24
      [] f \in {"S32_LE", "S32_BE"} -> 32
\* error results of snd_pcm_readi other than a removed device (-EPIPE)
ReadErrors ==
    {-32}

VARIABLES
    format,        \* run/silent parameter: the sample format
    channels,      \* run/silent parameter: samples per frame
    frames,        \* run/silent parameter: frames per block
    silence_max,   \* run parameter: the silence threshold
    onconnect,     \* global: connect hook program, or NULL
    ondisconnect,  \* global: disconnect hook program, or NULL
    buffer,        \* the block buffer, one entry per sample
    size,          \* run local: result of the last snd_pcm_readi
    connected,     \* run local
    silence,       \* run local: the silence run counter
    pipefd,        \* run local: "uninit", "open", "closed" (stale), "invalid" (-1)
    pc,            \* position in run(): "read", "threshold", "reconnect", "write", "done"
    log,           \* the calls run() has made since its last snd_pcm_readi
    streak,        \* history: silent full blocks read in a row since Connected with counter 0
    fired,         \* history: silence disconnects since the last non-silent full block
    was_connected, \* history: the value of connected when snd_pcm_readi was last called
    ret            \* SpecSilent: the value silent() returned, or "none"

vars ==
    <<format, channels, frames, silence_max, onconnect, ondisconnect, buffer,
      size, connected, silence, pipefd, pc, log, streak, fired, was_connected, ret>>

config ==
    <<format, channels, frames, silence_max, onconnect, ondisconnect>>

\* the sample values of the model; silent() only compares samples for equality
Samples ==
    {0, 1}

\* every block of n samples
Blocks(n) ==
    [1..n -> Samples]

\* data[i] of the C array laid over the buffer
Data(data, i) ==
    data[i + 1]

(***************************************************************************)
(* silent()                                                                *)
(***************************************************************************)
\* mutant: the comparison against sample 0 instead of the same channel's sample
MismatchNoChannel(data, i, nchannels) ==
    Data(data, i) # Data(data, 0)

\* data[i] != data[i % channels]
Mismatch(data, i, nchannels) ==
    Data(data, i) # Data(data, i % nchannels)

RECURSIVE SilentLoop(_, _, _, _)
\* for (i = channels; i < frames; i++) if (mismatch) return 0;  then return 1
SilentLoop(data, i, nframes, nchannels) ==
    IF i >= nframes THEN 1
    ELSE IF Mismatch(data, i, nchannels) THEN 0
    ELSE SilentLoop(data, i + 1, nframes, nchannels)

\* mutant: the widths without a case of their own are compared like 32-bit samples
silentDefault32(buf, nframes, fmt, nchannels) ==
    IF nchannels = 0 \/ nframes <= nchannels THEN 0
    ELSE SilentLoop(buf, nchannels, nframes, nchannels)

\* the whole of silent(): the guard, the switch on the width, the three loops
silent(buf, nframes, fmt, nchannels) ==
    IF nchannels = 0 \/ nframes <= nchannels THEN 0
    ELSE CASE snd_pcm_format_width(fmt) = 8 -> SilentLoop(buf, nchannels, nframes, nchannels)
           [] snd_pcm_format_width(fmt) = 16 -> SilentLoop(buf, nchannels, nframes, nchannels)
           [] snd_pcm_format_width(fmt) = 32 -> SilentLoop(buf, nchannels, nframes, nchannels)
           [] OTHER -> 0


(***************************************************************************)
(* run()                                                                   *)
(***************************************************************************)
\* runhook(prog): the fork and exec of a hook program, as an entry of the log
runhook(prog) ==
    <<"runhook", prog>>

\* mutant: the disconnect hook is forgotten
DisconnectCallsNoHook ==
    <<<<"close">>>>

\* if (ondisconnect) runhook(ondisconnect); close(pipefd);
DisconnectCalls ==
    (IF ondisconnect # NULL THEN <<runhook(ondisconnect)>> ELSE <<>>) \o <<<<"close">>>>

\* mutant: the counter is incremented without the test against the threshold
UpdateSilenceNoCap(s, isSilent, max) ==
    IF isSilent # 0
    THEN s + 1
    ELSE 0

\* mutant: a non-silent block leaves the counter as it is
UpdateSilenceNoReset(s, isSilent, max) ==
    IF isSilent # 0
    THEN (IF s < max THEN s + 1 ELSE s)
    ELSE s

\* the silence counter after a full block: if (silent(...)) { if (silence < silence_max)
\* silence++; } else silence = 0;
UpdateSilence(s, isSilent, max) ==
    IF isSilent # 0
    THEN (IF s < max THEN s + 1 ELSE s)
    ELSE 0

\* history: the streak of silent full blocks after one more full block
NextStreak(isSilent) ==
    LET base == IF connected = 1 /\ silence = 0 THEN 0 ELSE streak
    IN  IF isSilent # 0 /\ base >= 0 /\ base < silence_max THEN base + 1 ELSE -1

\* mutant: a read of 0 frames is handled like a short read
ReadInterruptedAsError ==
    /\ pc = "read"
    /\ size' = 0
    /\ log' = (IF connected = 1 THEN DisconnectCalls ELSE <<>>) \o <<<<"nanosleep">>>>
    /\ pc' = "read"
    /\ was_connected' = connected
    /\ connected' = 0
    /\ pipefd' = IF connected = 1 THEN "closed" ELSE pipefd
    /\ streak' = -1
    /\ UNCHANGED <<config, buffer, silence, fired, ret>>

\* size == 0: continue
ReadInterrupted ==
    /\ pc = "read"
    /\ size' = 0
    /\ log' = <<>>
    /\ pc' = "read"
    /\ was_connected' = connected
    /\ UNCHANGED <<config, buffer, connected, silence, pipefd, streak, fired, ret>>

\* size == frames: the block is classified and the silence counter updated
ReadFull ==
    /\ pc = "read"
    /\ \E b \in Blocks(frames * channels) :
         LET s == silent(b, frames, format, channels)
         IN  /\ buffer' = b
             /\ silence' = UpdateSilence(silence, s, silence_max)
             /\ streak' = NextStreak(s)
             /\ fired' = IF s = 0 THEN 0 ELSE fired
    /\ size' = frames
    /\ log' = <<>>
    /\ pc' = "threshold"
    /\ was_connected' = connected
    /\ UNCHANGED <<config, connected, pipefd, ret>>

\* mutant: the pipe is not closed on a read error
ErrorDisconnectNoClose ==
    /\ connected' = 0
    /\ pipefd' = pipefd
    /\ streak' = -1
    /\ was_connected' = connected
    /\ UNCHANGED <<config, silence, fired, ret>>

\* mutant: a read error resets the silence counter
ErrorDisconnectReset ==
    /\ connected' = 0
    /\ pipefd' = IF connected = 1 THEN "closed" ELSE pipefd
    /\ streak' = -1
    /\ was_connected' = connected
    /\ silence' = 0
    /\ UNCHANGED <<config, fired, ret>>

\* the else branch of size == frames up to the test of -ENODEV: disconnect if connected
ErrorDisconnect ==
    /\ connected' = 0
    /\ pipefd' = IF connected = 1 THEN "closed" ELSE pipefd
    /\ streak' = -1
    /\ was_connected' = connected
    /\ UNCHANGED <<config, silence, fired, ret>>

\* mutant: no backoff after a read error
ReadErrorNoSleep ==
    /\ pc = "read"
    /\ \E sz \in (1..(frames - 1)) \cup ReadErrors :
         /\ size' = sz
         /\ IF sz > 0
            THEN \E part \in Blocks(sz * channels) :
                   buffer' = [i \in 1..(frames * channels) |->
                                IF i <= sz * channels THEN part[i] ELSE buffer[i]]
            ELSE buffer' = buffer
    /\ ErrorDisconnect
    /\ log' = IF connected = 1 THEN DisconnectCalls ELSE <<>>
    /\ pc' = "read"

\* mutant: every read error ends run(), not -ENODEV alone
ReadErrorFatal ==
    /\ pc = "read"
    /\ \E sz \in (1..(frames - 1)) \cup ReadErrors :
         /\ size' = sz
         /\ IF sz > 0
            THEN \E part \in Blocks(sz * channels) :
                   buffer' = [i \in 1..(frames * channels) |->
                                IF i <= sz * channels THEN part[i] ELSE buffer[i]]
            ELSE buffer' = buffer
    /\ ErrorDisconnect
    /\ log' = IF connected = 1 THEN DisconnectCalls ELSE <<>>
    /\ pc' = IF size' < 0 THEN "done" ELSE "read"

\* a short read (0 < size < frames) or an error other than -ENODEV: sleep and try again
ReadError ==
    /\ pc = "read"
    /\ \E sz \in (1..(frames - 1)) \cup ReadErrors :
         /\ size' = sz
         /\ IF sz > 0
            THEN \E part \in Blocks(sz * channels) :
                   buffer' = [i \in 1..(frames * channels) |->
                                IF i <= sz * channels THEN part[i] ELSE buffer[i]]
            ELSE buffer' = buffer
    /\ ErrorDisconnect
    /\ log' = (IF connected = 1 THEN DisconnectCalls ELSE <<>>) \o <<<<"nanosleep">>>>
    /\ pc' = "read"

\* mutant: -ENODEV is tested before the disconnect
ReadNoDeviceEarlyReturn ==
    /\ pc = "read"
    /\ size' = -ENODEV
    /\ log' = <<>>
    /\ pc' = "done"
    /\ was_connected' = connected
    /\ UNCHANGED <<config, buffer, connected, silence, pipefd, streak, fired, ret>>

\* size == -ENODEV: return
ReadNoDevice ==
    /\ pc = "read"
    /\ size' = -ENODEV
    /\ buffer' = buffer
    /\ ErrorDisconnect
    /\ log' = IF connected = 1 THEN DisconnectCalls ELSE <<>>
    /\ pc' = "done"

\* mutant: the counter is not advanced past the threshold
SilenceDisconnectNoIncrement ==
    /\ pc = "threshold"
    /\ IF connected = 1 /\ silence = silence_max
       THEN /\ log' = log \o DisconnectCalls
            /\ pipefd' = "closed"
            /\ silence' = silence
            /\ connected' = 0
            /\ fired' = IF fired < 2 THEN fired + 1 ELSE fired
       ELSE UNCHANGED <<log, pipefd, silence, connected, fired>>
    /\ pc' = "reconnect"
    /\ UNCHANGED <<config, buffer, size, streak, was_connected, ret>>

\* if (connected && silence == silence_max) { hook; close; silence++; connected = 0; }
SilenceDisconnect ==
    /\ pc = "threshold"
    /\ IF connected = 1 /\ silence = silence_max
       THEN /\ log' = log \o DisconnectCalls
            /\ pipefd' = "closed"
            /\ silence' = silence + 1
            /\ connected' = 0
            /\ fired' = IF fired < 2 THEN fired + 1 ELSE fired
       ELSE UNCHANGED <<log, pipefd, silence, connected, fired>>
    /\ pc' = "reconnect"
    /\ UNCHANGED <<config, buffer, size, streak, was_connected, ret>>

\* mutant: the connect hook is forgotten
ReconnectNoHook ==
    /\ pc = "reconnect"
    /\ IF connected = 0 /\ silence < silence_max
       THEN \E opened \in BOOLEAN :
              IF opened
              THEN /\ pipefd' = "open"
                   /\ log' = log \o <<<<"open", "ok">>>>
                   /\ connected' = connected + 1
                   /\ pc' = "write"
              ELSE /\ pipefd' = "invalid"
                   /\ log' = log \o <<<<"open", "fail">>>>
                   /\ connected' = connected
                   /\ pc' = "done"
       ELSE /\ pc' = "write"
            /\ UNCHANGED <<pipefd, log, connected>>
    /\ UNCHANGED <<config, buffer, size, silence, streak, fired, was_connected, ret>>

\* mutant: the reconnection waits for a non-silent block (counter 0)
ReconnectOnlyNonSilent ==
    /\ pc = "reconnect"
    /\ IF connected = 0 /\ silence = 0 /\ silence < silence_max
       THEN \E opened \in BOOLEAN :
              IF opened
              THEN /\ pipefd' = "open"
                   /\ log' = log \o <<<<"open", "ok">>>>
                             \o (IF onconnect # NULL THEN <<runhook(onconnect)>> ELSE <<>>)
                   /\ connected' = connected + 1
                   /\ pc' = "write"
              ELSE /\ pipefd' = "invalid"
                   /\ log' = log \o <<<<"open", "fail">>>>
                   /\ connected' = connected
                   /\ pc' = "done"
       ELSE /\ pc' = "write"
            /\ UNCHANGED <<pipefd, log, connected>>
    /\ UNCHANGED <<config, buffer, size, silence, streak, fired, was_connected, ret>>

\* mutant: the reconnection is guarded by silence <= silence_max
ReconnectOffByOne ==
    /\ pc = "reconnect"
    /\ IF connected = 0 /\ silence <= silence_max
       THEN \E opened \in BOOLEAN :
              IF opened
              THEN /\ pipefd' = "open"
                   /\ log' = log \o <<<<"open", "ok">>>>
                             \o (IF onconnect # NULL THEN <<runhook(onconnect)>> ELSE <<>>)
                   /\ connected' = connected + 1
                   /\ pc' = "write"
              ELSE /\ pipefd' = "invalid"
                   /\ log' = log \o <<<<"open", "fail">>>>
                   /\ connected' = connected
                   /\ pc' = "done"
       ELSE /\ pc' = "write"
            /\ UNCHANGED <<pipefd, log, connected>>
    /\ UNCHANGED <<config, buffer, size, silence, streak, fired, was_connected, ret>>

\* mutant: a failed open does not return
ReconnectNoReturn ==
    /\ pc = "reconnect"
    /\ IF connected = 0 /\ silence < silence_max
       THEN \E opened \in BOOLEAN :
              /\ pipefd' = IF opened THEN "open" ELSE "invalid"
              /\ log' = log \o <<<<"open", IF opened THEN "ok" ELSE "fail">>>>
                        \o (IF onconnect # NULL THEN <<runhook(onconnect)>> ELSE <<>>)
              /\ connected' = connected + 1
              /\ pc' = "write"
       ELSE /\ pc' = "write"
            /\ UNCHANGED <<pipefd, log, connected>>
    /\ UNCHANGED <<config, buffer, size, silence, streak, fired, was_connected, ret>>

\* if (!connected && silence < silence_max) { open or return; hook; connected++; }
Reconnect ==
    /\ pc = "reconnect"
    /\ IF connected = 0 /\ silence < silence_max
       THEN \E opened \in BOOLEAN :
              IF opened
              THEN /\ pipefd' = "open"
                   /\ log' = log \o <<<<"open", "ok">>>>
                             \o (IF onconnect # NULL THEN <<runhook(onconnect)>> ELSE <<>>)
                   /\ connected' = connected + 1
                   /\ pc' = "write"
              ELSE /\ pipefd' = "invalid"
                   /\ log' = log \o <<<<"open", "fail">>>>
                   /\ connected' = connected
                   /\ pc' = "done"
       ELSE /\ pc' = "write"
            /\ UNCHANGED <<pipefd, log, connected>>
    /\ UNCHANGED <<config, buffer, size, silence, streak, fired, was_connected, ret>>

\* the results write(pipefd, ...) can have: on a descriptor that is not open only
\* an error, on an uninitialised one anything
WriteResults(fd) ==
    IF fd \in {"open", "uninit"} THEN {"ok", "EAGAIN", "fail"} ELSE {"fail"}

\* mutant: the write is guarded by silence <= silence_max
WriteOffByOne ==
    /\ pc = "write"
    /\ IF silence <= silence_max
       THEN \E rv \in WriteResults(pipefd) :
              /\ log' = log \o <<<<"write", pipefd, rv>>>>
              /\ pc' = IF rv = "fail" THEN "done" ELSE "read"
       ELSE /\ log' = log
            /\ pc' = "read"
    /\ UNCHANGED <<config, buffer, size, connected, silence, pipefd, streak, fired, was_connected, ret>>

\* mutant: a failed write disconnects before run() returns
WriteFailDisconnects ==
    /\ pc = "write"
    /\ IF silence < silence_max
       THEN \E rv \in WriteResults(pipefd) :
              /\ log' = log \o <<<<"write", pipefd, rv>>>>
                        \o (IF rv = "fail" THEN DisconnectCalls ELSE <<>>)
              /\ pc' = IF rv = "fail" THEN "done" ELSE "read"
              /\ connected' = IF rv = "fail" THEN 0 ELSE connected
              /\ pipefd' = IF rv = "fail" THEN "closed" ELSE pipefd
       ELSE /\ log' = log
            /\ pc' = "read"
            /\ UNCHANGED <<connected, pipefd>>
    /\ UNCHANGED <<config, buffer, size, silence, streak, fired, was_connected, ret>>

\* mutant: EAGAIN is treated like every other write error
WriteAgainFatal ==
    /\ pc = "write"
    /\ IF silence < silence_max
       THEN \E rv \in WriteResults(pipefd) :
              /\ log' = log \o <<<<"write", pipefd, rv>>>>
              /\ pc' = IF rv # "ok" THEN "done" ELSE "read"
       ELSE /\ log' = log
            /\ pc' = "read"
    /\ UNCHANGED <<config, buffer, size, connected, silence, pipefd, streak, fired, was_connected, ret>>

\* if (silence < silence_max) { write; EAGAIN: continue; other error: return; }
Write ==
    /\ pc = "write"
    /\ IF silence < silence_max
       THEN \E rv \in WriteResults(pipefd) :
              /\ log' = log \o <<<<"write", pipefd, rv>>>>
              /\ pc' = IF rv = "fail" THEN "done" ELSE "read"
       ELSE /\ log' = log
            /\ pc' = "read"
    /\ UNCHANGED <<config, buffer, size, connected, silence, pipefd, streak, fired, was_connected, ret>>

\* the threshold main() passes to run(): 5 * rate / frames (unsigned; 5 * rate
\* does not wrap at the rates of the model)
SilenceThreshold(rate, nframes) ==
    (5 * rate) \div nframes

\* the locals of run() after connected = 0; silence = 0; with the parameters main() passes
Init ==
    /\ format \in RunFormats
    /\ channels \in 1..RunChannels
    /\ frames \in 1..RunFrames
    /\ silence_max \in 0..MaxSilenceMax
    /\ onconnect \in {NULL, "onconnect"}
    /\ ondisconnect \in {NULL, "ondisconnect"}
    /\ buffer \in Blocks(frames * channels)
    /\ size = 0
    /\ connected = 0
    /\ silence = 0
    /\ pipefd = "uninit"
    /\ pc = "read"
    /\ log = <<>>
    /\ streak = -1
    /\ fired = 0
    /\ was_connected = 0
    /\ ret = "none"

Next ==
    \/ ReadInterrupted
    \/ ReadFull
    \/ ReadError
    \/ ReadNoDevice
    \/ SilenceDisconnect
    \/ Reconnect
    \/ Write

Spec ==
    Init /\ [][Next]_vars

(***************************************************************************)
(* silent() on its own: every block of every bounded geometry              *)
(***************************************************************************)
InitSilent ==
    /\ format \in Formats
    /\ channels \in 0..MaxChannels
    /\ frames \in 0..MaxFrames
    /\ buffer \in Blocks(frames * channels)
    /\ silence_max = 0
    /\ onconnect = NULL
    /\ ondisconnect = NULL
    /\ size = 0
    /\ connected = 0
    /\ silence = 0
    /\ pipefd = "uninit"
    /\ pc = "call"
    /\ log = <<>>
    /\ streak = -1
    /\ fired = 0
    /\ was_connected = 0
    /\ ret = "none"

\* a call of silent(buffer, frames, format, channels)
CallSilent ==
    /\ pc = "call"
    /\ ret' = silent(buffer, frames, format, channels)
    /\ pc' = "returned"
    /\ UNCHANGED <<config, buffer, size, connected, silence, pipefd, log, streak, fired, was_connected>>

NextSilent ==
    CallSilent

SpecSilent ==
    InitSilent /\ [][NextSilent]_vars


(***************************************************************************)
(* Properties                                                              *)
(***************************************************************************)
\* the hook calls among the entries of a log
IsHook(e) ==
    e[1] = "runhook"

HooksOf(seq) ==
    SelectSeq(seq, IsHook)

\* the write calls among the entries of a log
IsWrite(e) ==
    e[1] = "write"

WritesOf(seq) ==
    SelectSeq(seq, IsWrite)

\* the calls a step makes: what it appends to the log (a read starts the log afresh)
Emitted ==
    IF pc = "read" THEN log' ELSE SubSeq(log', Len(log) + 1, Len(log'))

\* the width of the format is one silent() has a case for
SupportedWidth ==
    snd_pcm_format_width(format) \in {8, 16, 32}

\* C1: at every read attempt of run() and when run() has returned, the output
\* pipe is open if and only if connected is set.
C1_HandleOpenIffConnected ==
    pc \in {"read", "done"} => (pipefd = "open" <=> connected = 1)

\* C1 witness: back at the read after a disconnect that closed the pipe.
C1_Witness ==
    pc = "read" /\ connected = 0 /\ pipefd = "closed"

\* C2: every write run() attempts is made on the open pipe, with connected set
\* and the silence counter strictly below the threshold.
C2_WriteOnlyConnectedBelowThreshold ==
    \A i \in 1..Len(log) :
        IsWrite(log[i]) =>
            /\ log[i][2] = "open"
            /\ pipefd = "open"
            /\ connected = 1
            /\ silence < silence_max

\* C2 witness: a block written one step below the threshold.
C2_Witness ==
    /\ WritesOf(log) # <<>>
    /\ silence_max >= 2
    /\ silence = silence_max - 1

\* C3: with both hooks configured, a step of run() calls the connect hook once
\* exactly when connected goes from 0 to 1, the disconnect hook once exactly when
\* connected goes from 1 to 0, and no hook otherwise.
C3_OneHookPerTransition ==
    [][(onconnect # NULL /\ ondisconnect # NULL) =>
          HooksOf(Emitted) =
              IF connected = 0 /\ connected' = 1 THEN <<runhook(onconnect)>>
              ELSE IF connected = 1 /\ connected' = 0 THEN <<runhook(ondisconnect)>>
              ELSE <<>>]_vars

\* C3 witness: a read error has disconnected a connected run, both hooks configured.
C3_Witness ==
    /\ onconnect # NULL
    /\ ondisconnect # NULL
    /\ pc = "read"
    /\ size \in ReadErrors
    /\ HooksOf(log) = <<runhook(ondisconnect)>>

\* some sample after the first frame differs from the first frame's sample of its channel
SomeLaterSampleDiffers ==
    \E i \in channels..(frames * channels - 1) :
        Data(buffer, i) # Data(buffer, i % channels)

\* C4: for a supported width, channels >= 1 and frames > channels, silent()
\* returns 0 when a sample after the first frame differs from the sample of the
\* same channel in the first frame.
C4_MismatchMeansNotSilent ==
    (/\ pc = "returned"
     /\ SupportedWidth
     /\ channels >= 1
     /\ frames > channels
     /\ SomeLaterSampleDiffers) => ret = 0

\* C5: for a supported width, channels >= 1 and frames > channels, silent()
\* returns 1 when every frame after the first equals the first frame channel by
\* channel.
C5_RepeatedFrameIsSilent ==
    (/\ pc = "returned"
     /\ SupportedWidth
     /\ channels >= 1
     /\ frames > channels
     /\ ~SomeLaterSampleDiffers) => ret = 1

\* C5 witness: a two-channel block of four frames whose channels differ, found silent.
C5_Witness ==
    /\ pc = "returned"
    /\ SupportedWidth
    /\ channels = 2
    /\ frames = 4
    /\ Data(buffer, 0) # Data(buffer, 1)
    /\ ~SomeLaterSampleDiffers
    /\ ret = 1


\* the step is a read of a full block (size == frames)
FullRead ==
    pc = "read" /\ pc' = "threshold"

\* C6: the silence counter decreases only when a non-silent full block sets it to
\* 0 (so it never decreases across silent blocks), a non-silent full block always
\* sets it to 0, a connected run whose counter reaches the threshold is
\* disconnected at once (hook and close), and no second silence disconnect
\* happens before a non-silent block has reset the counter.
C6_SilenceRun ==
    [][/\ silence' < silence =>
            (FullRead /\ silent(buffer', frames, format, channels) = 0 /\ silence' = 0)
       /\ (FullRead /\ silent(buffer', frames, format, channels) # 0) => silence' >= silence
       /\ (FullRead /\ silent(buffer', frames, format, channels) = 0) => silence' = 0
       /\ (pc = "threshold" /\ connected = 1 /\ silence = silence_max) =>
            (Emitted = DisconnectCalls /\ connected' = 0 /\ fired' = fired + 1)
       /\ (Emitted # <<>> /\ pc = "threshold") => (connected = 1 /\ silence = silence_max)
       /\ fired' <= 1]_vars

\* C6 witness: a further silent block after the silence disconnect passes the
\* threshold test without a second disconnect.
C6_Witness ==
    /\ pc = "reconnect"
    /\ fired = 1
    /\ log = <<>>
    /\ silence = silence_max + 1
    /\ connected = 0

\* C7 as claimed: after a read that returns a short block or an error, the
\* silence counter is 0.
C7_ErrorReadResetsCounter ==
    (pc \in {"read", "done"} /\ size \notin {0, frames}) => silence = 0

\* C7 as amended: a read that returns a short block or an error leaves the
\* silence counter as it was.
C7_ErrorReadKeepsCounter ==
    [][(pc = "read" /\ size' \notin {0, frames}) => silence' = silence]_vars

\* C7 witness: back at the read after a read error, with a counter that is not 0.
C7_Witness ==
    /\ pc = "read"
    /\ size \notin {0, frames}
    /\ silence > 0
    /\ log # <<>>

\* C8: a read that returns -ENODEV ends run(): connected, it calls the disconnect
\* hook (when one is configured) once and closes the pipe once; not connected, it
\* calls nothing; and once run() has returned nothing more is read, opened or
\* written.
C8_DeviceRemoved ==
    [][/\ (pc = "read" /\ size' = -ENODEV) =>
            /\ pc' = "done"
            /\ connected' = 0
            /\ silence' = silence
            /\ IF connected = 1
               THEN /\ log' = (IF ondisconnect # NULL
                               THEN <<runhook(ondisconnect)>> ELSE <<>>) \o <<<<"close">>>>
                    /\ pipefd' = "closed"
               ELSE /\ log' = <<>>
                    /\ pipefd' = pipefd
       /\ pc = "done" => UNCHANGED vars]_vars

\* C8 witness: run() has returned on -ENODEV after the disconnect hook and the close.
C8_Witness ==
    /\ pc = "done"
    /\ size = -ENODEV
    /\ log = <<runhook("ondisconnect"), <<"close">>>>
    /\ pipefd = "closed"

\* the step is a write that returned EAGAIN
WouldBlock ==
    /\ pc = "write"
    /\ Len(log') = Len(log) + 1
    /\ log'[Len(log')][3] = "EAGAIN"

\* C9: a write that would block changes neither connected nor the silence
\* counter nor the pipe, calls no hook and nothing else, and is followed by the
\* next read; no block is written twice (at most one write per read).
C9_WouldBlockChangesNothing ==
    [][/\ WouldBlock =>
            /\ connected' = connected
            /\ silence' = silence
            /\ pipefd' = pipefd
            /\ pipefd' = "open"
            /\ buffer' = buffer
            /\ HooksOf(Emitted) = <<>>
            /\ pc' = "read"
       /\ Len(WritesOf(log')) <= 1
       /\ pc = "read" => WritesOf(log') = <<>>]_vars

\* C9 witness: back at the read after a write that would block.
C9_Witness ==
    /\ pc = "read"
    /\ connected = 1
    /\ log # <<>>
    /\ log[Len(log)] = <<"write", "open", "EAGAIN">>

\* C10: for a threshold T >= 1, after the j-th silent full block in a row since
\* run() was connected with counter 0: for j < T the block has been written (one
\* write attempt), run() is still connected and the counter is j; for j = T the
\* disconnect hook has been called and the pipe closed, the block has not been
\* written, run() is disconnected and the counter is T + 1.
C10_SilentRunToThreshold ==
    (silence_max >= 1 /\ pc \in {"read", "done"} /\ size = frames) =>
        /\ (streak >= 1 /\ streak < silence_max) =>
              /\ connected = 1
              /\ pipefd = "open"
              /\ silence = streak
              /\ Len(log) = 1
              /\ IsWrite(log[1])
        /\ streak = silence_max =>
              /\ connected = 0
              /\ pipefd = "closed"
              /\ silence = silence_max + 1
              /\ log = DisconnectCalls

\* C10 witness: the third silent block in a row with threshold 3 has just
\* disconnected the run.
C10_Witness ==
    /\ silence_max = 3
    /\ streak = 3
    /\ pc = "read"
    /\ size = frames
    /\ ondisconnect # NULL
    /\ log = DisconnectCalls


\* the calls of a reconnection whose open succeeds
ConnectCalls ==
    <<<<"open", "ok">>>> \o (IF onconnect # NULL THEN <<runhook(onconnect)>> ELSE <<>>)

\* run() has just been through the loop body with a full block (it is back at the
\* read, or has returned from the reconnection or the write)
AfterFullBlock ==
    pc \in {"read", "done"} /\ size = frames

\* the last entry of the log
LastCall ==
    IF log = <<>> THEN <<"none">> ELSE log[Len(log)]

\* C11: for a threshold T >= 1, a non-silent full block read while disconnected
\* (whatever the counter was) sets the counter to 0 and, unless the open fails,
\* opens the pipe, calls the connect hook once, sets connected, and the block is
\* written in the same pass (one write attempt on the open pipe).
C11_NonSilentReconnects ==
    (/\ silence_max >= 1
     /\ AfterFullBlock
     /\ was_connected = 0
     /\ silent(buffer, frames, format, channels) = 0) =>
        /\ silence = 0
        /\ \/ /\ Len(log) = Len(ConnectCalls) + 1
              /\ SubSeq(log, 1, Len(ConnectCalls)) = ConnectCalls
              /\ IsWrite(LastCall)
              /\ LastCall[2] = "open"
              /\ connected = 1
              /\ pipefd = "open"
           \/ /\ log = <<<<"open", "fail">>>>
              /\ pc = "done"

\* C11 witness: a non-silent block read while disconnected has opened the pipe,
\* called the connect hook and been written.
C11_Witness ==
    /\ silence_max >= 1
    /\ pc = "read"
    /\ size = frames
    /\ was_connected = 0
    /\ fired = 0
    /\ pipefd = "open"
    /\ onconnect # NULL
    /\ log = <<<<"open", "ok">>, runhook(onconnect), <<"write", "open", "ok">>>>
    /\ silent(buffer, frames, format, channels) = 0

\* C12: after a short read or a read error other than -ENODEV run() is back at
\* the read, disconnected; connected before, it has called the disconnect hook
\* and closed the pipe; in every case it has opened nothing, written nothing and
\* slept once, last of all.
C12_ReadErrorBacksOff ==
    (size \notin {0, frames, -ENODEV}) =>
        /\ pc = "read"
        /\ connected = 0
        /\ pipefd # "open"
        /\ log = (IF was_connected = 1 THEN DisconnectCalls ELSE <<>>) \o <<<<"nanosleep">>>>

\* C12 witness: a short read of one frame has disconnected a connected run.
C12_Witness ==
    /\ pc = "read"
    /\ size = 1
    /\ frames > 1
    /\ was_connected = 1
    /\ pipefd = "closed"
    /\ ondisconnect # NULL

\* C13: when the open of the pipe fails run() returns at once: the failed open is
\* its last call, the connect hook has not been called, nothing has been
\* written, connected is 0 and no pipe is open.
C13_OpenFailureIsFatal ==
    (\E i \in 1..Len(log) : log[i] = <<"open", "fail">>) =>
        /\ pc = "done"
        /\ LastCall = <<"open", "fail">>
        /\ HooksOf(log) = <<>>
        /\ WritesOf(log) = <<>>
        /\ connected = 0
        /\ pipefd = "invalid"

\* C13 witness: run() has returned on a failed open, a connect hook configured.
C13_Witness ==
    /\ pc = "done"
    /\ log = <<<<"open", "fail">>>>
    /\ pipefd = "invalid"
    /\ onconnect # NULL
    /\ silence = 0


\* C14: when a write fails with an error other than EAGAIN run() returns at
\* once: the failed write is its last call (no close, no disconnect hook after
\* it), connected is still set and the pipe still open.
C14_WriteFailureIsFatal ==
    (\E i \in 1..Len(log) : IsWrite(log[i]) /\ log[i][3] = "fail") =>
        /\ pc = "done"
        /\ IsWrite(LastCall)
        /\ LastCall[3] = "fail"
        /\ Len(WritesOf(log)) = 1
        /\ \A i \in 1..Len(log) : log[i] # <<"close">> /\ log[i] # runhook(ondisconnect)
        /\ connected = 1
        /\ pipefd = "open"

\* C14 witness: the write to a pipe left open by an earlier pass has failed.
C14_Witness ==
    /\ pc = "done"
    /\ log = <<<<"write", "open", "fail">>>>
    /\ connected = 1
    /\ pipefd = "open"

\* C15: run() has returned only if its last read returned -ENODEV, or its last
\* call was a failed open, or its last call was a write that failed with an
\* error other than EAGAIN; everywhere else it has a next step.
C15_OnlyThreeExits ==
    /\ pc = "done" =>
          \/ size = -ENODEV
          \/ LastCall = <<"open", "fail">>
          \/ (IsWrite(LastCall) /\ LastCall[3] = "fail")
    /\ pc # "done" => ENABLED Next

\* C15 witness: run() has returned on -ENODEV while disconnected, after a read
\* error that did not end it (the counter is not 0 and the pipe was closed).
C15_Witness ==
    /\ pc = "done"
    /\ size = -ENODEV
    /\ was_connected = 0
    /\ log = <<>>
    /\ pipefd = "closed"
    /\ silence > 0
    /\ silence < silence_max

\* C16: a read that returns 0 changes nothing: connected, the silence counter,
\* the pipe and the buffer stay as they are, nothing is called (no hook, open,
\* close, write or sleep) and run() is at the read again.
C16_ZeroReadChangesNothing ==
    [][(pc = "read" /\ size' = 0) =>
          /\ connected' = connected
          /\ silence' = silence
          /\ pipefd' = pipefd
          /\ buffer' = buffer
          /\ log' = <<>>
          /\ pc' = "read"]_vars

\* C16 witness: at the read after a read of 0 frames, connected and with a
\* silence counter that is not 0.
C16_Witness ==
    /\ pc = "read"
    /\ size = 0
    /\ log = <<>>
    /\ connected = 1
    /\ pipefd = "open"
    /\ silence > 0


\* C17: with a format whose width is not 8, 16 or 32, silent() returns 0 for the
\* block run() has read, the silence counter is 0 everywhere, no silence
\* disconnect ever happens, and the pipe is closed only in a pass whose read
\* was short, failed or returned -ENODEV.
C17_UnsupportedWidthNeverSilent ==
    ~SupportedWidth =>
        /\ pc = "threshold" => silent(buffer, frames, format, channels) = 0
        /\ silence = 0
        /\ fired = 0
        /\ (\E i \in 1..Len(log) : log[i] = <<"close">>) => size \notin {0, frames}

\* C17 witness: a 24-bit block of two equal frames has connected a run whose
\* threshold is 1: it was not counted as silent.
C17_Witness ==
    /\ ~SupportedWidth
    /\ silence_max = 1
    /\ pc = "write"
    /\ channels = 1
    /\ frames = 2
    /\ Data(buffer, 0) = Data(buffer, 1)
    /\ was_connected = 0
    /\ connected = 1

\* C18: at every read attempt, with threshold T, the silence counter is between
\* 0 and T + 1, it is T + 1 only when disconnected, and connected implies a
\* counter below T.
C18_CounterRange ==
    pc = "read" =>
        /\ silence >= 0
        /\ silence <= silence_max + 1
        /\ silence = silence_max + 1 => connected = 0
        /\ connected = 1 => silence < silence_max

\* C18 witness: at the read with the counter at T + 1, after a silence disconnect.
C18_Witness ==
    /\ pc = "read"
    /\ silence_max >= 1
    /\ silence = silence_max + 1
    /\ connected = 0
    /\ fired = 1

\* the pass was a silent full block read while disconnected that left the counter
\* below the threshold
SilentBlockBelowThreshold ==
    /\ AfterFullBlock
    /\ was_connected = 0
    /\ silent(buffer, frames, format, channels) # 0
    /\ silence < silence_max

\* C19 as claimed: a silent full block read while disconnected that leaves the
\* counter below the threshold opens the pipe, calls the connect hook and is
\* written.
C19_SilentBlockReconnects ==
    SilentBlockBelowThreshold =>
        /\ Len(log) = Len(ConnectCalls) + 1
        /\ SubSeq(log, 1, Len(ConnectCalls)) = ConnectCalls
        /\ IsWrite(LastCall)
        /\ LastCall[2] = "open"
        /\ connected = 1
        /\ pipefd = "open"

\* C19 as amended: such a block makes run() attempt the open; unless the open
\* fails (and run() returns), the pipe is open, the connect hook has been
\* called once, connected is set and the silent block has been written (one
\* write attempt on the open pipe).
C19_SilentBlockReconnectsIfOpened ==
    SilentBlockBelowThreshold =>
        \/ /\ Len(log) = Len(ConnectCalls) + 1
           /\ SubSeq(log, 1, Len(ConnectCalls)) = ConnectCalls
           /\ IsWrite(LastCall)
           /\ LastCall[2] = "open"
           /\ connected = 1
           /\ pipefd = "open"
        \/ /\ log = <<<<"open", "fail">>>>
           /\ pc = "done"
           /\ connected = 0

\* C19 witness: a silent block that followed a disconnect by a read error (the
\* pipe had been closed, the counter was not 0) has reconnected and been written.
C19_Witness ==
    /\ SilentBlockBelowThreshold
    /\ pc = "read"
    /\ silence >= 2
    /\ onconnect # NULL
    /\ log = <<<<"open", "ok">>, runhook(onconnect), <<"write", "open", "ok">>>>

\* C20: the threshold main() computes is 0 when frames > 5 * rate, and with
\* threshold 0 run() stays disconnected with counter 0: the pipe descriptor is
\* never assigned, and nothing is opened, written, closed or run as a hook (the
\* only call is the sleep after a read error).
C20_ZeroThresholdNeverConnects ==
    /\ \A rate \in 0..MaxSilenceMax : \A nframes \in 1..(5 * MaxSilenceMax + 1) :
          nframes > 5 * rate => SilenceThreshold(rate, nframes) = 0
    /\ silence_max = 0 =>
          /\ connected = 0
          /\ silence = 0
          /\ pipefd = "uninit"
          /\ \A i \in 1..Len(log) : log[i] = <<"nanosleep">>

\* C20 witness: with threshold 0 a non-silent full block has gone through the
\* whole loop body and run() is at the read again.
C20_Witness ==
    /\ silence_max = 0
    /\ pc = "read"
    /\ size = frames
    /\ frames = 2
    /\ Data(buffer, 0) # Data(buffer, 1)
    /\ log = <<>>

=============================================================================
